---- MODULE Spec2Model ----
(***************************************************************************)
(* Model of server/tushandlers.go: the upload-creation handler postFile    *)
(* with addRemoteIPToMetadata, getDirectOrForwardedRemoteIP, processJwt     *)
(* and getSecretForToken.                                                   *)
(*                                                                         *)
(* Strings are modelled as sequences of symbols: the empty string is <<>>, *)
(* a plain text is a one-symbol sequence, a JWT in compact serialisation   *)
(* is the sequence of its segments, and "host:port" is <<host, port>>.     *)
(***************************************************************************)
EXTENDS Integers, Sequences, FiniteSets, TLC

\* pc         where the server is with the current create request
\* clientReq  the request as the client sent it
\* req        c.Request, whose Upload-Metadata header the handler rewrites
\* resp       the response postFile wrote
\* forwarded  the requests postFile passed to handler.PostFile
\* logged     what postFile and its callees logged for the request
VARIABLES pc, clientReq, req, resp, forwarded, logged

\* uploads    the uploads the engine created: uploads[id] holds the metadata
\*            of upload id and the request and response of its creation
\* channel    the recorder's queue of the event broadcaster, oldest first
\* closed     whether the broadcaster closed that channel
\* created    created[id]: how many post-create events of upload id the
\*            broadcaster put on the channel
\* emitted    how many events the broadcaster put on the channel
\* recPc      where ipRecorder is: "running" in its loop, or "returned"
\* event      the event ipRecorder received last
\* tasks      the goroutines ipRecorder started, in the order of their start
\* db         the uploads table: db[id] is the uploader_ip of row id
VARIABLES uploads, channel, closed, created, emitted, recPc, event, tasks, db

\* cors       a request on its way through the middleware chain of the
\*            router: where it is, its Origin header, the configured
\*            CorsOrigins, the Access-Control-Allow-Origin and Vary values of
\*            the response header, and whether the chain was aborted
VARIABLES cors

handlerVars == <<pc, clientReq, req, resp, forwarded, logged>>
recorderVars ==
    <<uploads, channel, closed, created, emitted, recPc, event, tasks, db>>

vars == <<handlerVars, recorderVars, cors>>

\* ------------------------------------------------------------------ bounds
\* Largest number of entries in a client's Upload-Metadata header.
MaxEntries == 2
\* Largest number of comma separated addresses in X-Forwarded-For.
MaxHops == 2
\* Largest number of uploads the engine creates.
MaxUploads == 2
\* Largest number of lifecycle events the broadcaster delivers.
MaxEvents == 3
\* The same two bounds in the specification of the liveness claims.
MaxLiveUploads == 2
MaxLiveEvents == 2

\* ------------------------------------------------------- program constants
StatusBadRequest == 400
StatusUnauthorized == 401
StatusNotAcceptable == 406
StatusInternalServerError == 500

remoteIPKey == "RemoteIP"

EmptyString == <<>>
Text(sym) == <<sym>>

\* ------------------------------------------------------------ configuration
\* serv.cfg.Server.TrustedReverseProxyRanges and serv.cfg.JwtSecretsByIssuer,
\* read-only after start-up.
TrustedReverseProxyRanges == << [ip |-> <<10, 0, 0, 0>>, bits |-> 8] >>

JwtSecretsByIssuer == [i \in {"irc.a"} |-> "s1"]

\* ------------------------------------------------------------ net package
NilIP == <<>>

\* net.ParseIP: the address a text denotes, NilIP when it denotes none.
ParseIP(s) ==
    CASE s = "10.0.0.1"       -> <<10, 0, 0, 1>>
      [] s = "1.2.3.4"        -> <<1, 2, 3, 4>>
      [] s = "9.9.9.9"        -> <<9, 9, 9, 9>>
      [] s = "::ffff:9.9.9.9" -> <<9, 9, 9, 9>>
      [] s = "8.8.8.8"        -> <<8, 8, 8, 8>>
      [] OTHER                -> NilIP

\* net.IP.String: the canonical text of an address.
IPString(ip) ==
    CASE ip = <<10, 0, 0, 1>> -> "10.0.0.1"
      [] ip = <<1, 2, 3, 4>>  -> "1.2.3.4"
      [] ip = <<9, 9, 9, 9>>  -> "9.9.9.9"
      [] ip = <<8, 8, 8, 8>>  -> "8.8.8.8"
      [] OTHER                -> "<nil>"

IPToInt(ip) == ((ip[1] * 256 + ip[2]) * 256 + ip[3]) * 256 + ip[4]

RECURSIVE Pow2(_)
Pow2(n) == IF n = 0 THEN 1 ELSE 2 * Pow2(n - 1)

\* net.IPNet.Contains: the address agrees with the network on the prefix bits.
Contains(trustedNet, ip) ==
    /\ ip # NilIP
    /\ IPToInt(ip) \div Pow2(32 - trustedNet.bits)
         = IPToInt(trustedNet.ip) \div Pow2(32 - trustedNet.bits)

\* net.SplitHostPort: "host:port" splits, anything else is a *net.AddrError.
SplitHostPort(addr) ==
    IF Len(addr) = 2
    THEN [err |-> "nil", host |-> addr[1]]
    ELSE [err |-> "AddrError", host |-> ""]

\* ----------------------------------------------------------------- errors
\* A Go error value: its dynamic type and, for a *jwt.ValidationError, the
\* error it wraps in Inner.
NoError == [type |-> "nil", inner |-> "nil"]
ErrorString(msg) == [type |-> "errorString", inner |-> msg]
AddrError == [type |-> "AddrError", inner |-> "nil"]
ValidationError(inner) == [type |-> "ValidationError", inner |-> inner]

\* ErrInvalidXForwardedFor, errors.New(...)
ErrInvalidXForwardedFor == ErrorString("ErrInvalidXForwardedFor")

\* ---------------------------------------------------------- metadata codec
\* The wire header is a sequence of entries [key, b64]; b64 is the base64
\* text of the value, <<>> when the value is empty or its encoding omitted.
\* An entry is malformed when its key is missing or its b64 is no base64
\* text.
Base64Encode(v) == IF v = EmptyString THEN <<>> ELSE <<"b64", v>>
Base64Decode(e) == IF e = <<>> THEN EmptyString ELSE e[2]
IsBase64(e) == e = <<>> \/ (Len(e) = 2 /\ e[1] = "b64")
Malformed(e) == e.key = "" \/ ~IsBase64(e.b64)

EmptyMeta == [k \in {} |-> EmptyString]

\* m[key] = value of a Go map
MetaSet(m, key, value) ==
    [k \in DOMAIN m \cup {key} |-> IF k = key THEN value ELSE m[k]]

\* m[key] read of a Go map: the zero value when the key is absent
MetaGet(m, key) == IF key \in DOMAIN m THEN m[key] ELSE EmptyString

\* parseMeta returns the map alone (`metadata := parseMeta(...)`): it has
\* no error to hand to its caller, and an entry it cannot decode adds
\* nothing to the map.
RECURSIVE parseMeta(_)
parseMeta(header) ==
    IF header = <<>>
    THEN EmptyMeta
    ELSE LET e == header[Len(header)]
             rest == parseMeta(SubSeq(header, 1, Len(header) - 1))
         IN  IF Malformed(e)
             THEN rest
             ELSE MetaSet(rest, e.key, Base64Decode(e.b64))

KeyOrder == <<"filename", "extjwt", "RemoteIP", "issuer", "account">>

serializeMeta(metadata) ==
    LET ks == SelectSeq(KeyOrder, LAMBDA k : k \in DOMAIN metadata)
    IN  [i \in 1..Len(ks) |->
            [key |-> ks[i], b64 |-> Base64Encode(metadata[ks[i]])]]

\* --------------------------------------------------- proxy trust resolver
\* Mutant of remoteIPisTrusted: the range list is not consulted.
remoteIPisTrustedAnyPeer(remoteIP) == TRUE

\* remoteIPisTrusted: the address lies in some trusted reverse proxy range.
remoteIPisTrusted(remoteIP) ==
    \E i \in 1..Len(TrustedReverseProxyRanges) :
        Contains(TrustedReverseProxyRanges[i], remoteIP)

\* req.Header.Get("X-Forwarded-For") = "": the header is absent or empty.
\* The header value is the sequence of its comma separated parts, each an
\* address text with or without surrounding white space.
ForwardedForIsEmpty(forwardedFor) == forwardedFor = <<>>

\* Mutant of FirstForwardedFor: the last part of the chain is taken.
LastForwardedFor(forwardedFor) == forwardedFor[Len(forwardedFor)].addr

\* strings.TrimSpace(strings.Split(forwardedFor, ",")[0])
FirstForwardedFor(forwardedFor) == forwardedFor[1].addr

\* Mutant of getDirectOrForwardedRemoteIP: the direct peer host is taken
\* whatever X-Forwarded-For holds.
getDirectRemoteIP(r) ==
    [err |-> NoError, ip |-> SplitHostPort(r.RemoteAddr).host, log |-> <<>>]

\* getDirectOrForwardedRemoteIP: [err, ip, log]
getDirectOrForwardedRemoteIP(r) ==
    LET sp == SplitHostPort(r.RemoteAddr)
        remoteIP == sp.host
        forwardedFor == r.XForwardedFor
    IN  IF sp.err # "nil"
        THEN [err |-> AddrError, ip |-> "",
              log |-> <<"Could not split address into host and port">>]
        ELSE IF ~ForwardedForIsEmpty(forwardedFor)
        THEN IF remoteIPisTrusted(ParseIP(remoteIP))
             THEN LET forwardedForClient == FirstForwardedFor(forwardedFor)
                      forwardedForIP == ParseIP(forwardedForClient)
                  IN  IF forwardedForIP = NilIP
                      THEN [err |-> ErrInvalidXForwardedFor, ip |-> "",
                            log |-> <<"Couldn't use X-Forwarded-For">>]
                      ELSE [err |-> NoError, ip |-> IPString(forwardedForIP),
                            log |-> <<>>]
             ELSE [err |-> NoError, ip |-> remoteIP,
                   log |-> <<"Untrusted remote attempted to override stored IP">>]
        ELSE [err |-> NoError, ip |-> remoteIP, log |-> <<>>]

\* addRemoteIPToMetadata: [err, header, log], header being the request's
\* Upload-Metadata header when the function returns.
addRemoteIPToMetadata(r) ==
    LET metadata == parseMeta(r.UploadMetadata)
        res == getDirectOrForwardedRemoteIP(r)
    IN  IF \E k \in DOMAIN metadata : k = remoteIPKey
        THEN [err |-> ErrorString("RemoteIP cannot be set by client"),
              header |-> r.UploadMetadata, log |-> <<>>]
        ELSE IF res.err # NoError
        THEN [err |-> res.err, header |-> r.UploadMetadata, log |-> res.log]
        ELSE [err |-> NoError,
              header |-> serializeMeta(
                             MetaSet(metadata, remoteIPKey, Text(res.ip))),
              log |-> res.log]

\* ------------------------------------------------------------ jwt tokens
\* A token in compact serialisation is modelled by five segments
\* <<alg, iss, account, exp, sig>>: the declared algorithm, the iss and
\* account claims (NoClaim when absent), whether the time claims are still
\* valid, and the secret the signature was made with.
NoClaim == "-"
TokenSegments == 5

Alg(tokenString) == tokenString[1]
Iss(tokenString) == tokenString[2]
Account(tokenString) == tokenString[3]
Exp(tokenString) == tokenString[4]
Sig(tokenString) == tokenString[5]

\* token.Method.(*jwt.SigningMethodHMAC)
IsSigningMethodHMAC(alg) == alg \in {"HS256", "HS384", "HS512"}

\* Mutant of getSecretForToken: the map lookup's ok is not tested, so an
\* issuer that is not configured yields the zero value, the empty secret.
getSecretForTokenNoOkTest(token) ==
    IF ~IsSigningMethodHMAC(Alg(token))
    THEN [err |-> ErrorString("Unexpected signing method"), secret |-> ""]
    ELSE IF Iss(token) = NoClaim
    THEN [err |-> ErrorString("Issuer field 'iss' missing from JWT"),
          secret |-> ""]
    ELSE IF Iss(token) \notin DOMAIN JwtSecretsByIssuer
    THEN [err |-> NoError, secret |-> ""]
    ELSE [err |-> NoError, secret |-> JwtSecretsByIssuer[Iss(token)]]

\* getSecretForToken: [err, secret]
getSecretForToken(token) ==
    IF ~IsSigningMethodHMAC(Alg(token))
    THEN [err |-> ErrorString("Unexpected signing method"), secret |-> ""]
    ELSE IF Iss(token) = NoClaim
    THEN [err |-> ErrorString("Issuer field 'iss' missing from JWT"),
          secret |-> ""]
    ELSE IF Iss(token) \notin DOMAIN JwtSecretsByIssuer
    THEN [err |-> [type |-> "UnknownIssuerError", inner |-> "nil"],
          secret |-> ""]
    ELSE [err |-> NoError, secret |-> JwtSecretsByIssuer[Iss(token)]]

\* jwt.Parse(tokenString, serv.getSecretForToken): [err, valid].  A string
\* that does not split into the segments of a token is malformed, and the
\* key function is not called for it; an error of the key function is
\* wrapped in a *jwt.ValidationError; a signature that does not verify sets
\* Inner to jwt.ErrSignatureInvalid, whatever the validation of the time
\* claims had put there; otherwise invalid time claims are the error.
JwtParse(tokenString) ==
    IF Len(tokenString) # TokenSegments
    THEN [err |-> ValidationError("nil"), valid |-> FALSE]
    ELSE LET k == getSecretForToken(tokenString)
         IN  IF k.err # NoError
             THEN [err |-> ValidationError(k.err.type), valid |-> FALSE]
             ELSE IF Sig(tokenString) # k.secret
             THEN [err |-> ValidationError("ErrSignatureInvalid"),
                   valid |-> FALSE]
             ELSE IF Exp(tokenString) # "ok"
             THEN [err |-> ValidationError("errorString"), valid |-> FALSE]
             ELSE [err |-> NoError, valid |-> TRUE]

\* The switch of processJwt on a metadata key: whether its case returns the
\* "cannot be set by client" error.  The case "account" has an empty body
\* and a Go case does not fall through to the next one.
SwitchReturnsError(k) ==
    CASE k = "account" -> FALSE
      [] k = "issuer"  -> TRUE
      [] OTHER         -> FALSE

\* Mutant of processJwt: the header is rebuilt from the identity fields
\* alone instead of from the parsed metadata.
processJwtFreshMap(header) ==
    LET metadata == parseMeta(header)
        tokenString == MetaGet(metadata, "extjwt")
        parsed == JwtParse(tokenString)
    IN  IF \E k \in DOMAIN metadata : SwitchReturnsError(k)
        THEN [err |-> ErrorString("Metadata field cannot be set by client"),
              header |-> header]
        ELSE IF tokenString = EmptyString
        THEN [err |-> NoError, header |-> header]
        ELSE IF parsed.err # NoError
        THEN [err |-> parsed.err, header |-> header]
        ELSE IF ~parsed.valid
        THEN [err |-> NoError, header |-> header]
        ELSE IF Account(tokenString) = NoClaim
        THEN [err |-> NoError, header |-> header]
        ELSE [err |-> NoError,
              header |-> serializeMeta(
                  MetaSet(MetaSet(EmptyMeta, "issuer",
                                  Text(Iss(tokenString))),
                          "account", Text(Account(tokenString))))]

\* processJwt: [err, header]
processJwt(header) ==
    LET metadata == parseMeta(header)
        tokenString == MetaGet(metadata, "extjwt")
        parsed == JwtParse(tokenString)
    IN  IF \E k \in DOMAIN metadata : SwitchReturnsError(k)
        THEN [err |-> ErrorString("Metadata field cannot be set by client"),
              header |-> header]
        ELSE IF tokenString = EmptyString
        THEN [err |-> NoError, header |-> header]
        ELSE IF parsed.err # NoError
        THEN [err |-> parsed.err, header |-> header]
        ELSE IF ~parsed.valid
        THEN [err |-> NoError, header |-> header]
        ELSE IF Account(tokenString) = NoClaim
        THEN [err |-> NoError, header |-> header]
        ELSE [err |-> NoError,
              header |-> serializeMeta(
                  MetaSet(MetaSet(metadata, "issuer",
                                  Text(Iss(tokenString))),
                          "account", Text(Account(tokenString))))]

\* Mutant of isFatalJwtError: the type assertion on Inner never matches.
isFatalJwtErrorAlways(err) == TRUE

\* isFatalJwtError: every error but a *jwt.ValidationError wrapping an
\* *UnknownIssuerError.
isFatalJwtError(err) ==
    ~(err.type = "ValidationError" /\ err.inner = "UnknownIssuerError")

\* Mutant of AddRemoteIPAbort: the *net.AddrError assertion never matches.
AddRemoteIPAbortNoAddrError(err) ==
    [status |-> StatusNotAcceptable, errType |-> "default"]

\* The status and gin error type postFile aborts with when
\* addRemoteIPToMetadata fails.
AddRemoteIPAbort(err) ==
    IF err.type = "AddrError"
    THEN [status |-> StatusInternalServerError, errType |-> "private"]
    ELSE [status |-> StatusNotAcceptable, errType |-> "default"]

\* ---------------------------------------------------------------- postFile
\* What the handler leaves behind: the response it wrote (status 0 when it
\* wrote none and left the response to the upload engine), the request's
\* Upload-Metadata header, the calls of handler.PostFile, and the log.
NoResponse == [status |-> 0, errType |-> "none", secretHint |-> FALSE]

Abort(status, errType, secretHint, header, log) ==
    [resp |-> [status |-> status, errType |-> errType,
               secretHint |-> secretHint],
     header |-> header, forwarded |-> FALSE, log |-> log]

postFile(r) ==
    LET a == addRemoteIPToMetadata(r)
        j == processJwt(a.header)
    IN  IF a.err # NoError
        THEN Abort(AddRemoteIPAbort(a.err).status,
                   AddRemoteIPAbort(a.err).errType, FALSE,
                   a.header, a.log)
        ELSE IF j.err # NoError /\ isFatalJwtError(j.err)
        THEN IF j.err.type = "ValidationError"
                /\ j.err.inner = "ErrSignatureInvalid"
             THEN Abort(StatusUnauthorized, "public", TRUE,
                        j.header, a.log)
             ELSE Abort(StatusBadRequest, "public", FALSE,
                        j.header, a.log)
        ELSE [resp |-> NoResponse, header |-> j.header, forwarded |-> TRUE,
              log |-> IF j.err # NoError
                      THEN Append(a.log, "Failed to process EXTJWT")
                      ELSE a.log]

\* ------------------------------------------------------------------ inputs
SeqsUpTo(S, n) == UNION {[1..m -> S] : m \in 0..n}

\* req.RemoteAddr: a trusted proxy, an untrusted peer, a host that is no IP
\* literal, and an address without a port.
RemoteAddrs ==
    { <<"10.0.0.1", "5000">>, <<"1.2.3.4", "5000">>,
      <<"fe80::1%eth0", "5000">>, <<"10.0.0.1">> }

\* X-Forwarded-For: the first part, written by the proxy nearest the client,
\* followed by the parts later proxies appended.
ForwardedParts ==
    { [ws |-> TRUE, addr |-> "9.9.9.9"],
      [ws |-> FALSE, addr |-> "::ffff:9.9.9.9"],
      [ws |-> FALSE, addr |-> "not-an-ip"], [ws |-> TRUE, addr |-> ""] }

AppendedParts ==
    { [ws |-> TRUE, addr |-> "8.8.8.8"], [ws |-> TRUE, addr |-> "not-an-ip"] }

ForwardedFors ==
    {<<>>} \cup
    { <<first>> \o rest : first \in ForwardedParts,
                          rest \in SeqsUpTo(AppendedParts, MaxHops - 1) }

\* Values a client sends under extjwt: tokens <<alg, iss, account, exp, sig>>
\* and a string that is no token.
ClientTokens ==
    { <<"HS256", "irc.a", "alice", "ok", "s1">>,
      <<"HS256", "irc.a", NoClaim, "ok", "s1">>,
      <<"HS256", "irc.a", "alice", "ok", "bad">>,
      <<"HS256", "irc.a", "alice", "expired", "s1">>,
      <<"HS256", "irc.x", "alice", "ok", "">>,
      <<"HS256", NoClaim, "alice", "ok", "s1">>,
      <<"RS256", "irc.a", "alice", "ok", "s1">>,
      <<"garbage">> }

ClientEntries ==
    {[key |-> "extjwt", b64 |-> Base64Encode(t)] : t \in ClientTokens}
    \cup { [key |-> "filename", b64 |-> Base64Encode(Text("a.txt"))],
           [key |-> "RemoteIP", b64 |-> Base64Encode(Text("1.1.1.1"))],
           [key |-> "issuer", b64 |-> Base64Encode(Text("irc.a"))],
           [key |-> "account", b64 |-> Base64Encode(Text("mallory"))] }

ClientMetadataHeaders == SeqsUpTo(ClientEntries, MaxEntries)

Requests ==
    [RemoteAddr : RemoteAddrs, XForwardedFor : ForwardedFors,
     UploadMetadata : ClientMetadataHeaders]

\* -------------------------------------------------------------- ipRecorder
\* hooks.HookType of the tusd events.
HookPostCreate == "post-create"
HookPostReceive == "post-receive"
HookPostFinish == "post-finish"
HookPostTerminate == "post-terminate"
HookTypes ==
    {HookPostCreate, HookPostReceive, HookPostFinish, HookPostTerminate}

NoEvent == [Type |-> "", ID |-> 0, MetaData |-> EmptyMeta]

\* The state before registerTusHandlers starts `go serv.ipRecorder(...)`
\* has run a step: the loop waits on an open, empty channel.
RecorderInit ==
    /\ uploads = <<>>
    /\ channel = <<>>
    /\ closed = FALSE
    /\ created = <<>>
    /\ emitted = 0
    /\ recPc = "running"
    /\ event = NoEvent
    /\ tasks = <<>>
    /\ db = <<>>

\* ------------------------------------------------------------------- CORS
\* Until a request comes in: no request, and CorsOrigins not yet read.
NoCors ==
    [pc |-> "idle", origin |-> "", allowed |-> <<>>, acao |-> <<>>,
     vary |-> <<>>, aborted |-> FALSE]

\* The allowed origins of the configuration, serv.cfg.Server.CorsOrigins.
CorsOriginLists ==
    { <<>>,
      <<"https://a.example">>,
      <<"https://a.example", "https://b.example", "https://a.example">>,
      <<"*">> }

\* The Origin header of a request; "" when the request has none.
Origins ==
    { "", "https://a.example", "https://A.example", "https://b.example",
      "https://a.example.evil.test", "http://a.example" }

\* originSet: the slice values as the keys of a map.
originSet(allowedOrigins) ==
    {allowedOrigins[i] : i \in 1..Len(allowedOrigins)}

\* Mutant of customizedCors: the header is not deleted for an origin that
\* is not in the list.
customizedCorsNoDel(allowedOrigins, origin, respHeader) ==
    [acao |-> IF origin \in originSet(allowedOrigins)
              THEN <<origin>>
              ELSE respHeader.acao,
     vary |-> Append(respHeader.vary, "Origin")]

\* The handler function customizedCors returns, applied to the Origin of the
\* request and the response header: the header when it ends.
customizedCors(allowedOrigins, origin, respHeader) ==
    [acao |-> IF origin \in originSet(allowedOrigins)
              THEN <<origin>>
              ELSE <<>>,
     vary |-> Append(respHeader.vary, "Origin")]

\* ----------------------------------------------------------- state machine
NoRequest ==
    [RemoteAddr |-> <<>>, XForwardedFor |-> <<>>, UploadMetadata |-> <<>>]

Init ==
    /\ pc = "idle"
    /\ clientReq = NoRequest
    /\ req = NoRequest
    /\ resp = NoResponse
    /\ forwarded = <<>>
    /\ logged = <<>>
    /\ RecorderInit
    /\ cors = NoCors

\* The router dispatches a POST to the handler: c.Request is the request as
\* the client sent it.
Accept ==
    /\ pc = "idle"
    /\ \E r \in Requests :
          /\ clientReq' = r
          /\ req' = r
    /\ pc' = "handling"
    /\ resp' = NoResponse
    /\ forwarded' = <<>>
    /\ logged' = <<>>
    /\ UNCHANGED <<recorderVars, cors>>

\* The handler postFile runs on c.Request, up to its call of
\* handler.PostFile.
RunPostFile ==
    /\ pc = "handling"
    /\ LET out == postFile(req)
       IN  /\ req' = [req EXCEPT !.UploadMetadata = out.header]
           /\ resp' = out.resp
           /\ forwarded' = IF out.forwarded
                           THEN <<[req EXCEPT !.UploadMetadata = out.header]>>
                           ELSE <<>>
           /\ logged' = out.log
    /\ pc' = "done"
    /\ UNCHANGED clientReq

\* The handler postFile runs to its end.
PostFile ==
    /\ RunPostFile
    /\ UNCHANGED <<recorderVars, cors>>

\* The request is over; the server waits for the next one.
Finish ==
    /\ pc = "done"
    /\ pc' = "idle"
    /\ clientReq' = NoRequest
    /\ req' = NoRequest
    /\ resp' = NoResponse
    /\ forwarded' = <<>>
    /\ logged' = <<>>
    /\ UNCHANGED <<recorderVars, cors>>

Next ==
    \/ Accept
    \/ PostFile
    \/ Finish

Spec == Init /\ [][Next]_vars

TypeOK ==
    /\ pc \in {"idle", "handling", "done"}
    /\ Len(forwarded) <= 1
    /\ Len(logged) <= 2

\* --------------------------------------------------- the middleware chain
\* The server starts with one of the configurations.
CorsInit ==
    /\ pc = "idle"
    /\ clientReq = NoRequest
    /\ req = NoRequest
    /\ resp = NoResponse
    /\ forwarded = <<>>
    /\ logged = <<>>
    /\ RecorderInit
    /\ \E allowedOrigins \in CorsOriginLists :
          cors = [NoCors EXCEPT !.allowed = allowedOrigins]

\* A request enters the chain r.Use(tusdMiddleware), r.Use(customizedCors).
CorsAccept ==
    /\ cors.pc = "idle"
    /\ \E origin \in Origins :
          cors' = [cors EXCEPT !.pc = "tusd", !.origin = origin,
                               !.acao = <<>>, !.vary = <<>>]
    /\ UNCHANGED <<handlerVars, recorderVars>>

\* tusdMiddleware, mounted before customizedCors, has run: it left the
\* response header alone, or set Access-Control-Allow-Origin to the
\* request's Origin or to another value.
TusdMiddleware ==
    /\ cors.pc = "tusd"
    /\ \E acao \in {<<>>, <<cors.origin>>, <<"*">>},
          vary \in {<<>>, <<"Accept-Encoding">>} :
          cors' = [cors EXCEPT !.pc = "cors", !.acao = acao, !.vary = vary]
    /\ UNCHANGED <<handlerVars, recorderVars>>

\* The handler function of customizedCors runs and returns without
\* c.Abort: the chain goes on.
CustomizedCors ==
    /\ cors.pc = "cors"
    /\ LET h == customizedCors(cors.allowed, cors.origin,
                               [acao |-> cors.acao, vary |-> cors.vary])
       IN  cors' = [cors EXCEPT !.pc = "route", !.acao = h.acao,
                                !.vary = h.vary]
    /\ UNCHANGED <<handlerVars, recorderVars>>

\* The route handler runs unless the chain was aborted, and the response
\* is sent with the header as it is.
CorsRoute ==
    /\ cors.pc = "route"
    /\ ~cors.aborted
    /\ cors' = [cors EXCEPT !.pc = "sent"]
    /\ UNCHANGED <<handlerVars, recorderVars>>

CorsFinish ==
    /\ cors.pc = "sent"
    /\ cors' = [NoCors EXCEPT !.allowed = cors.allowed]
    /\ UNCHANGED <<handlerVars, recorderVars>>

CorsNext ==
    \/ CorsAccept
    \/ TusdMiddleware
    \/ CustomizedCors
    \/ CorsRoute
    \/ CorsFinish

CorsSpec == CorsInit /\ [][CorsNext]_vars

\* ------------------------------------------ requests with malformed metadata
\* Upload-Metadata entries of the specification of malformed headers: two
\* well-formed ones, one without a key and one whose value is no base64.
MetadataEntries ==
    { [key |-> "filename", b64 |-> Base64Encode(Text("a.txt"))],
      [key |-> "extjwt",
       b64 |-> Base64Encode(<<"HS256", "irc.a", "alice", "ok", "s1">>)],
      [key |-> "", b64 |-> Base64Encode(Text("a.txt"))],
      [key |-> "filename", b64 |-> <<"!!">>] }

MetadataRequests ==
    [RemoteAddr : {<<"1.2.3.4", "5000">>, <<"10.0.0.1", "5000">>},
     XForwardedFor : {<<>>, << [ws |-> FALSE, addr |-> "9.9.9.9"] >>},
     UploadMetadata : SeqsUpTo(MetadataEntries, MaxEntries)]

\* The router dispatches a POST whose header may hold malformed entries.
AcceptMetadata ==
    /\ pc = "idle"
    /\ \E r \in MetadataRequests :
          /\ clientReq' = r
          /\ req' = r
    /\ pc' = "handling"
    /\ resp' = NoResponse
    /\ forwarded' = <<>>
    /\ logged' = <<>>
    /\ UNCHANGED <<recorderVars, cors>>

MetadataNext ==
    \/ AcceptMetadata
    \/ PostFile
    \/ Finish

MetadataSpec == Init /\ [][MetadataNext]_vars

\* ---------------------------------------- the recorder and the upload engine
\* Create requests of the recorder's specification: a client behind the
\* trusted proxy with a verified token, an untrusted peer that sends
\* X-Forwarded-For, and a request the handler rejects.
RecorderRequests ==
    { [RemoteAddr |-> <<"10.0.0.1", "5000">>,
       XForwardedFor |-> << [ws |-> FALSE, addr |-> "::ffff:9.9.9.9"],
                            [ws |-> TRUE, addr |-> "8.8.8.8"] >>,
       UploadMetadata |->
           << [key |-> "extjwt",
               b64 |-> Base64Encode(
                           <<"HS256", "irc.a", "alice", "ok", "s1">>)] >>],
      [RemoteAddr |-> <<"1.2.3.4", "5000">>,
       XForwardedFor |-> << [ws |-> TRUE, addr |-> "9.9.9.9"] >>,
       UploadMetadata |->
           << [key |-> "filename", b64 |-> Base64Encode(Text("a.txt"))] >>],
      [RemoteAddr |-> <<"10.0.0.1", "5000">>,
       XForwardedFor |-> << [ws |-> FALSE, addr |-> "not-an-ip"] >>,
       UploadMetadata |-> <<>>] }

\* The event the engine emits for upload id: its type, Info.ID and the
\* snapshot Info.MetaData.
EventOf(type, id, metadata) ==
    [Type |-> type, ID |-> id, MetaData |-> metadata]

\* A create request runs through postFile, handler.PostFile included: when
\* the handler forwards it, the engine decodes the metadata of the request
\* it is handed, creates the upload and its row, notifies the created
\* upload and answers the client.  A request the handler rejects creates
\* nothing.
CreateUpload ==
    /\ Len(uploads) < MaxUploads
    /\ emitted < MaxEvents
    /\ ~closed
    /\ \E r \in RecorderRequests :
          LET out == postFile(r)
              metadata == parseMeta(out.header)
              id == Len(uploads) + 1
          IN  IF out.forwarded
              THEN /\ uploads' = Append(uploads, [MetaData |-> metadata,
                                                  from |-> r,
                                                  resp |-> out.resp])
                   /\ db' = Append(db, EmptyString)
                   /\ created' = Append(created, 1)
                   /\ emitted' = emitted + 1
                   /\ channel' = Append(channel,
                          EventOf(HookPostCreate, id, metadata))
              ELSE UNCHANGED <<uploads, db, created, emitted, channel>>
    /\ UNCHANGED <<handlerVars, cors, closed, recPc, event, tasks>>

\* The engine notifies another lifecycle event of an upload it created; the
\* broadcaster may also deliver the upload's post-create event again.
Emit ==
    /\ ~closed
    /\ emitted < MaxEvents
    /\ \E id \in 1..Len(uploads), type \in HookTypes :
          /\ channel' = Append(channel,
                               EventOf(type, id, uploads[id].MetaData))
          /\ created' = IF type = HookPostCreate
                        THEN [created EXCEPT ![id] = @ + 1]
                        ELSE created
    /\ emitted' = emitted + 1
    /\ UNCHANGED <<handlerVars, cors, uploads, closed, recPc, event, tasks, db>>

\* The broadcaster closes the recorder's channel.
CloseChannel ==
    /\ ~closed
    /\ closed' = TRUE
    /\ UNCHANGED <<handlerVars, cors, uploads, channel, created, emitted, recPc,
                   event, tasks, db>>

\* Mutant of StartsWrite: every event starts a write.
StartsWriteAlways(e) == TRUE

\* Mutant of StartsWrite: the write is started when the upload finishes.
StartsWriteOnFinish(e) == e.Type = HookPostFinish

\* event.Type == hooks.HookPostCreate
StartsWrite(e) == e.Type = HookPostCreate

\* One iteration of ipRecorder's loop that receives an event: for a
\* post-create event it starts a goroutine, whose closure holds the
\* event variable of this iteration.
RecorderReceive ==
    /\ recPc = "running"
    /\ channel # <<>>
    /\ event' = Head(channel)
    /\ channel' = Tail(channel)
    /\ tasks' = IF StartsWrite(Head(channel))
                THEN Append(tasks, [event |-> Head(channel),
                                    pc |-> "started",
                                    ip |-> EmptyString, id |-> 0,
                                    attempts |-> 0, err |-> FALSE])
                ELSE tasks
    /\ UNCHANGED <<handlerVars, cors, uploads, closed, created, emitted, recPc, db>>

\* Mutant of RecorderReturn: the loop does not test ok, takes the zero
\* event of the closed channel and goes round again.
RecorderSpin ==
    /\ recPc = "running"
    /\ channel = <<>>
    /\ closed
    /\ event' = NoEvent
    /\ UNCHANGED <<handlerVars, cors, uploads, channel, closed, created, emitted,
                   recPc, tasks, db>>

\* The receive of ipRecorder finds the channel closed and drained: the
\* function returns.
RecorderReturn ==
    /\ recPc = "running"
    /\ channel = <<>>
    /\ closed
    /\ recPc' = "returned"
    /\ UNCHANGED <<handlerVars, cors, uploads, channel, closed, created, emitted,
                   event, tasks, db>>

\* Mutant of ClosureEvent: the goroutine reads an event variable that is
\* declared outside the loop and shared by all iterations.
SharedEvent(i) == event

\* The event variable the closure of goroutine i refers to: the one its
\* own iteration declared.
ClosureEvent(i) == tasks[i].event

\* Mutant of UpdateRow: the statement has no WHERE clause.
UpdateRowAll(rows, ip, id) ==
    [r \in DOMAIN rows |-> ip]

\* db.UpdateRow(..., `UPDATE uploads SET uploader_ip = ? WHERE id = ?`,
\* ip, id) when the store accepts the write.
UpdateRow(rows, ip, id) ==
    [r \in DOMAIN rows |-> IF r = id THEN ip ELSE rows[r]]

\* Goroutine i reads the IP of its event: ip := event.Info.MetaData[...].
TaskReadIP(i) ==
    /\ i \in 1..Len(tasks)
    /\ tasks[i].pc = "started"
    /\ tasks' = [tasks EXCEPT
                    ![i].ip = MetaGet(ClosureEvent(i).MetaData, remoteIPKey),
                    ![i].pc = "read"]
    /\ UNCHANGED <<handlerVars, cors, uploads, channel, closed, created, emitted,
                   recPc, event, db>>

\* Goroutine i reads the ID of its event and calls db.UpdateRow, which
\* blocks on the store.
TaskBegin(i) ==
    /\ i \in 1..Len(tasks)
    /\ tasks[i].pc = "read"
    /\ tasks' = [tasks EXCEPT
                    ![i].id = ClosureEvent(i).ID,
                    ![i].attempts = @ + 1,
                    ![i].pc = "writing"]
    /\ UNCHANGED <<handlerVars, cors, uploads, channel, closed, created, emitted,
                   recPc, event, db>>

\* Mutant of TaskEnd: a failed write is attempted again.
TaskEndRetry(i, ok) ==
    /\ i \in 1..Len(tasks)
    /\ tasks[i].pc = "writing"
    /\ db' = IF ok THEN UpdateRow(db, tasks[i].ip, tasks[i].id) ELSE db
    /\ tasks' = [tasks EXCEPT
                    ![i].pc = IF ok \/ tasks[i].attempts > 1
                              THEN "done" ELSE "read",
                    ![i].err = ~ok]
    /\ UNCHANGED <<handlerVars, cors, uploads, channel, closed, created, emitted,
                   recPc, event>>

\* db.UpdateRow of goroutine i returns: the store took the write, or it
\* failed and the error is logged; the goroutine ends.
TaskEnd(i, ok) ==
    /\ i \in 1..Len(tasks)
    /\ tasks[i].pc = "writing"
    /\ db' = IF ok THEN UpdateRow(db, tasks[i].ip, tasks[i].id) ELSE db
    /\ tasks' = [tasks EXCEPT ![i].pc = "done", ![i].err = ~ok]
    /\ UNCHANGED <<handlerVars, cors, uploads, channel, closed, created, emitted,
                   recPc, event>>

TaskStep ==
    \E i \in 1..Len(tasks) :
        \/ TaskReadIP(i)
        \/ TaskBegin(i)
        \/ TaskEnd(i, TRUE)
        \/ TaskEnd(i, FALSE)

RecorderNext ==
    \/ CreateUpload
    \/ Emit
    \/ CloseChannel
    \/ RecorderReceive
    \/ RecorderReturn
    \/ TaskStep

RecorderSpec == Init /\ [][RecorderNext]_vars

\* The scheduler runs ipRecorder when it can take a step, and it runs some
\* goroutine that can take a step; a call of db.UpdateRow returns.  Every
\* goroutine has finitely many steps, so each of them ends.
RecorderFairness ==
    /\ WF_vars(RecorderReceive \/ RecorderReturn)
    /\ WF_vars(TaskStep)

\* The specification of the liveness claims: the same steps within the
\* smaller bounds MaxLiveUploads and MaxLiveEvents, with the scheduling
\* above.
LiveCreateUpload ==
    /\ Len(uploads) < MaxLiveUploads
    /\ emitted < MaxLiveEvents
    /\ CreateUpload

LiveEmit ==
    /\ emitted < MaxLiveEvents
    /\ Emit

FairRecorderNext ==
    \/ LiveCreateUpload
    \/ LiveEmit
    \/ CloseChannel
    \/ RecorderReceive
    \/ RecorderReturn
    \/ TaskStep

FairRecorderSpec == Init /\ [][FairRecorderNext]_vars /\ RecorderFairness

RecorderTypeOK ==
    /\ recPc \in {"running", "returned"}
    /\ Len(uploads) <= MaxUploads
    /\ Len(db) = Len(uploads)
    /\ emitted <= MaxEvents
    /\ Len(tasks) <= emitted
    /\ \A i \in 1..Len(tasks) :
          tasks[i].pc \in {"started", "read", "writing", "done"}

\* ------------------------------------------------- vocabulary of the claims
\* The metadata the client sent, the metadata on the request now, and the
\* metadata on the request handed to the upload engine.
ClientMeta == parseMeta(clientReq.UploadMetadata)
RequestMeta == parseMeta(req.UploadMetadata)
Forwarded == pc = "done" /\ forwarded # <<>>
ForwardedMeta == parseMeta(forwarded[1].UploadMetadata)
Rejected(status) ==
    pc = "done" /\ resp.status = status /\ forwarded = <<>>

\* The direct peer.
PeerSplits == Len(clientReq.RemoteAddr) = 2
PeerHost == clientReq.RemoteAddr[1]
PeerInTrustedRange ==
    /\ PeerSplits
    /\ \E i \in 1..Len(TrustedReverseProxyRanges) :
          Contains(TrustedReverseProxyRanges[i], ParseIP(PeerHost))

\* The forwarded-address header.
ClientForwardedFor == clientReq.XForwardedFor
FirstPartIsIP == ParseIP(ClientForwardedFor[1].addr) # NilIP

\* The IP the server is to attribute the request to.
IPResolves ==
    /\ PeerSplits
    /\ PeerInTrustedRange /\ ClientForwardedFor # <<>> => FirstPartIsIP
ResolvedIP ==
    IF PeerInTrustedRange /\ ClientForwardedFor # <<>>
    THEN IPString(ParseIP(ClientForwardedFor[1].addr))
    ELSE PeerHost

\* The bearer token of the client metadata.
ClientToken == MetaGet(ClientMeta, "extjwt")
TokenWellFormed == Len(ClientToken) = TokenSegments
TokenHMAC == TokenWellFormed /\ IsSigningMethodHMAC(Alg(ClientToken))
TokenHasIss == TokenWellFormed /\ Iss(ClientToken) # NoClaim
IssuerKnown == TokenHasIss /\ Iss(ClientToken) \in DOMAIN JwtSecretsByIssuer
SignatureGood ==
    IssuerKnown /\ Sig(ClientToken) = JwtSecretsByIssuer[Iss(ClientToken)]
TokenVerified ==
    TokenHMAC /\ IssuerKnown /\ SignatureGood /\ Exp(ClientToken) = "ok"

\* The request reaches the identity stage: the client sent no RemoteIP and
\* the IP resolved.
PassesIPStage == remoteIPKey \notin DOMAIN ClientMeta /\ IPResolves
ClientSentIdentityKey ==
    "account" \in DOMAIN ClientMeta \/ "issuer" \in DOMAIN ClientMeta

\* ------------------------------------------------------------------ claims

\* C1: on every request handed to the upload engine, each reserved key
\* (RemoteIP, issuer, account) of the Upload-Metadata header is absent or
\* holds the value the server computed: the resolved IP, the verified iss,
\* the verified account; never a value that came from the client.
C1_ReservedKeysServerOnly ==
    Forwarded =>
        /\ "RemoteIP" \in DOMAIN ForwardedMeta
              => ForwardedMeta["RemoteIP"] = Text(ResolvedIP)
        /\ "issuer" \in DOMAIN ForwardedMeta
              => /\ TokenVerified
                 /\ ForwardedMeta["issuer"] = Text(Iss(ClientToken))
        /\ "account" \in DOMAIN ForwardedMeta
              => /\ TokenVerified
                 /\ ForwardedMeta["account"] = Text(Account(ClientToken))

\* C2: a create request whose client metadata contains the key account or
\* the key issuer, and that passes the RemoteIP check and IP resolution, is
\* rejected with 400 and never handed to the upload engine, with or without
\* a bearer token.
C2_IdentityKeyRejected ==
    pc = "done" /\ PassesIPStage /\ ClientSentIdentityKey
        => Rejected(StatusBadRequest)

\* C3: a create request whose client metadata contains the key RemoteIP is
\* rejected with 400, its Upload-Metadata header is left as the client sent
\* it, and it is never handed to the upload engine.
C3_RemoteIPRejected ==
    pc = "done" /\ remoteIPKey \in DOMAIN ClientMeta
        => /\ Rejected(StatusBadRequest)
           /\ req.UploadMetadata = clientReq.UploadMetadata

\* C4: when the direct peer host lies in no trusted proxy range, the IP
\* resolves to the direct peer host without error for every value of
\* X-Forwarded-For, so two requests of that peer that differ only in the
\* header resolve alike; the handler stamps that host on what it forwards
\* and rejects nothing for the header's sake.
C4_UntrustedPeerIgnoresForwardedFor ==
    pc # "idle" /\ PeerSplits /\ ~PeerInTrustedRange
        => /\ \A x \in ForwardedFors :
                LET res == getDirectOrForwardedRemoteIP(
                               [clientReq EXCEPT !.XForwardedFor = x])
                IN  res.err = NoError /\ res.ip = PeerHost
           /\ pc = "done" /\ remoteIPKey \notin DOMAIN ClientMeta
                => /\ RequestMeta[remoteIPKey] = Text(PeerHost)
                   /\ resp.status \notin {StatusNotAcceptable,
                                          StatusInternalServerError}

C4_Witness ==
    /\ Forwarded
    /\ PeerHost = "1.2.3.4"
    /\ Len(ClientForwardedFor) = 2
    /\ ClientForwardedFor[1].addr = "9.9.9.9"
    /\ ForwardedMeta[remoteIPKey] = Text("1.2.3.4")

\* C5: when the direct peer host lies in a trusted proxy range and
\* X-Forwarded-For is not empty, the resolved IP is the first comma
\* separated part, trimmed and parsed as an IP; the later parts do not
\* influence it; without the header the resolved IP is the direct host.
C5_TrustedPeerTakesFirstForwardedFor ==
    pc = "done" /\ PeerInTrustedRange /\ remoteIPKey \notin DOMAIN ClientMeta
        => /\ ClientForwardedFor # <<>> /\ FirstPartIsIP
                => /\ RequestMeta[remoteIPKey]
                        = Text(IPString(ParseIP(ClientForwardedFor[1].addr)))
                   /\ \A rest \in SeqsUpTo(AppendedParts, MaxHops - 1) :
                        getDirectOrForwardedRemoteIP(
                            [clientReq EXCEPT !.XForwardedFor =
                                <<ClientForwardedFor[1]>> \o rest]).ip
                          = IPString(ParseIP(ClientForwardedFor[1].addr))
           /\ ClientForwardedFor = <<>>
                => RequestMeta[remoteIPKey] = Text(PeerHost)

C5_Witness ==
    /\ Forwarded
    /\ PeerHost = "10.0.0.1"
    /\ Len(ClientForwardedFor) = 2
    /\ ClientForwardedFor[1] = [ws |-> FALSE, addr |-> "::ffff:9.9.9.9"]
    /\ ClientForwardedFor[2].addr = "8.8.8.8"
    /\ ForwardedMeta[remoteIPKey] = Text("9.9.9.9")

\* C6: when IP resolution fails, a direct peer address that does not split
\* into host and port aborts the request with 500 and a private error, and
\* a trusted peer whose first forwarded part is no IP aborts it with 406; in
\* both cases no RemoteIP is injected and the upload engine is not called.
C6_ResolutionFailures ==
    pc = "done" /\ remoteIPKey \notin DOMAIN ClientMeta
        => /\ ~PeerSplits
                => /\ Rejected(StatusInternalServerError)
                   /\ resp.errType = "private"
                   /\ remoteIPKey \notin DOMAIN RequestMeta
           /\ PeerInTrustedRange /\ ClientForwardedFor # <<>> /\ ~FirstPartIsIP
                => /\ Rejected(StatusNotAcceptable)
                   /\ remoteIPKey \notin DOMAIN RequestMeta

C6_Witness ==
    /\ Rejected(StatusInternalServerError)
    /\ resp.errType = "private"
    /\ ~PeerSplits
    /\ ClientForwardedFor # <<>>
    /\ req.UploadMetadata = clientReq.UploadMetadata

\* C7: an HMAC token whose iss is not a key of the issuer-secret registry
\* (the UnknownIssuer condition) never aborts a request that passed the
\* reserved-key checks and IP resolution: the request is handed to the
\* upload engine, and its metadata is the client metadata plus the injected
\* RemoteIP, with no issuer and no account added.
C7_UnknownIssuerProceeds ==
    ( /\ pc = "done" /\ PassesIPStage /\ ~ClientSentIdentityKey
      /\ TokenHMAC /\ TokenHasIss /\ ~IssuerKnown )
        => /\ Forwarded
           /\ resp = NoResponse
           /\ ForwardedMeta = MetaSet(ClientMeta, remoteIPKey, Text(ResolvedIP))
           /\ "issuer" \notin DOMAIN ForwardedMeta
           /\ "account" \notin DOMAIN ForwardedMeta

C7_Witness ==
    /\ Forwarded
    /\ TokenHMAC /\ TokenHasIss /\ ~IssuerKnown
    /\ DOMAIN ForwardedMeta = {"extjwt", "filename", "RemoteIP"}

\* C8: a token naming an issuer of the registry whose signature does not
\* verify aborts the request with 401 and the configured-secret hint; every
\* other fatal token error (a signing method that is not HMAC, a missing
\* iss, a reserved identity key sent by the client) aborts it with 400; in
\* all these cases the upload engine is not called.
C8_FatalTokenErrors ==
    pc = "done" /\ PassesIPStage
        => /\ ~ClientSentIdentityKey /\ TokenHMAC /\ IssuerKnown
                /\ ~SignatureGood
                => Rejected(StatusUnauthorized) /\ resp.secretHint
           /\ ( \/ ClientSentIdentityKey
                \/ TokenWellFormed /\ ~TokenHMAC
                \/ TokenHMAC /\ ~TokenHasIss )
                => Rejected(StatusBadRequest)

\* C9: when the metadata carries a validly signed token whose iss is in the
\* registry and that has an account claim, the forwarded metadata has issuer
\* = the token's iss and account = the token's account; and on every
\* forwarded request an issuer value is a key of the issuer-secret registry.
C9_VerifiedIdentityInjected ==
    Forwarded
        => /\ TokenHMAC /\ SignatureGood /\ Account(ClientToken) # NoClaim
                => /\ "issuer" \in DOMAIN ForwardedMeta
                   /\ "account" \in DOMAIN ForwardedMeta
                   /\ ForwardedMeta["issuer"] = Text(Iss(ClientToken))
                   /\ ForwardedMeta["account"] = Text(Account(ClientToken))
           /\ "issuer" \in DOMAIN ForwardedMeta
                => \E i \in DOMAIN JwtSecretsByIssuer :
                        ForwardedMeta["issuer"] = Text(i)

C9_Witness ==
    /\ Forwarded
    /\ TokenVerified
    /\ "account" \notin DOMAIN ClientMeta
    /\ ForwardedMeta["issuer"] = Text("irc.a")
    /\ ForwardedMeta["account"] = Text("alice")

\* C10: every request handed to the upload engine carries RemoteIP equal to
\* the IP resolved for it, on every path that does not abort (no token,
\* unknown issuer, valid token with or without account): the RemoteIP that
\* addRemoteIPToMetadata wrote survives processJwt's re-parse and re-encode.
C10_RemoteIPSurvives ==
    Forwarded
        => /\ remoteIPKey \in DOMAIN ForwardedMeta
           /\ ForwardedMeta[remoteIPKey] = Text(ResolvedIP)
           /\ ForwardedMeta[remoteIPKey]
                = parseMeta(addRemoteIPToMetadata(clientReq).header)[remoteIPKey]

C10_Witness ==
    /\ Forwarded
    /\ TokenVerified /\ Account(ClientToken) # NoClaim
    /\ "issuer" \in DOMAIN ForwardedMeta
    /\ PeerInTrustedRange /\ ClientForwardedFor # <<>>
    /\ ForwardedMeta[remoteIPKey] = Text("9.9.9.9")

\* C11: when the metadata carries no bearer token (extjwt absent or empty),
\* or a valid token without an account claim, the request is not rejected
\* for that reason and is handed to the upload engine, and the forwarded
\* metadata asserts no identity: it has neither an issuer nor an account key.
C11_NoIdentityWithoutVerifiedAccount ==
    ( /\ pc = "done" /\ PassesIPStage
      /\ \/ ClientToken = EmptyString
         \/ TokenVerified /\ Account(ClientToken) = NoClaim )
        => /\ ~ClientSentIdentityKey => Forwarded
           /\ Forwarded => /\ "issuer" \notin DOMAIN ForwardedMeta
                           /\ "account" \notin DOMAIN ForwardedMeta


\* ------------------------------------------- vocabulary of the recorder claims
\* The RemoteIP of the metadata upload id was created with, the writes the
\* recorder issued for it and the writes the store accepted.
UploadRemoteIP(id) == MetaGet(uploads[id].MetaData, remoteIPKey)
Issued(id) ==
    {i \in 1..Len(tasks) :
        tasks[i].pc \in {"writing", "done"} /\ tasks[i].id = id}
Written(id) ==
    {i \in Issued(id) : tasks[i].pc = "done" /\ ~tasks[i].err}
Refused(id) ==
    {i \in Issued(id) : tasks[i].pc = "done" /\ tasks[i].err}

\* Upload id was created through a trusted proxy that named the client in
\* X-Forwarded-For.
UploadPeerHost(id) == uploads[id].from.RemoteAddr[1]
UploadBehindTrustedProxy(id) ==
    /\ \E k \in 1..Len(TrustedReverseProxyRanges) :
          Contains(TrustedReverseProxyRanges[k], ParseIP(UploadPeerHost(id)))
    /\ uploads[id].from.XForwardedFor # <<>>
UploadClientIP(id) ==
    Text(IPString(ParseIP(uploads[id].from.XForwardedFor[1].addr)))

\* The loop takes an event off the channel in this step.
Received(type) ==
    /\ channel # <<>>
    /\ channel' = Tail(channel)
    /\ Head(channel).Type = type

\* C12: the recorder starts a write only for post-create events: every
\* goroutine belongs to a post-create event, and the step that receives a
\* post-receive, post-finish or post-terminate event starts no goroutine
\* and leaves every stored uploader_ip as it was.
C12_OnlyCreatedStartsWrite ==
    [][ /\ \A i \in 1..Len(tasks') : tasks'[i].event.Type = HookPostCreate
        /\ \A type \in HookTypes \ {HookPostCreate} :
              Received(type) => tasks' = tasks /\ db' = db ]_vars

C12_Witness ==
    /\ event.Type = HookPostFinish
    /\ channel = <<>>
    /\ Len(tasks) = 1
    /\ tasks[1].pc = "done"
    /\ db[1] = UploadRemoteIP(1)
    /\ db[1] # EmptyString

\* Upload id exists and came through a trusted proxy; its client address
\* is stored or the store refused a write for it.
C13_Created(id) ==
    IF id <= Len(uploads) THEN UploadBehindTrustedProxy(id) ELSE FALSE
C13_Settled(id) ==
    IF C13_Created(id)
    THEN db[id] = UploadClientIP(id) \/ Refused(id) # {}
    ELSE FALSE

\* C17: a create request whose Upload-Metadata header holds a malformed
\* entry (no key, or a value that is no base64) is rejected with 400 and
\* not handed to the upload engine.
C17_MalformedMetadataRejected ==
    ( /\ pc = "done"
      /\ \E i \in 1..Len(clientReq.UploadMetadata) :
            Malformed(clientReq.UploadMetadata[i]) )
        => Rejected(StatusBadRequest)

\* C18: when customizedCors has run, the response header holds
\* Access-Control-Allow-Origin with the request's Origin as its one value
\* when the Origin is an element of CorsOrigins, and no such header for any
\* other Origin, whatever tusdMiddleware had set; Vary has gained Origin;
\* the chain is not aborted and the route handler runs.
C18_AllowOriginExactMatch ==
    cors.pc \in {"route", "sent"} =>
        /\ IF \E i \in 1..Len(cors.allowed) : cors.allowed[i] = cors.origin
           THEN cors.acao = <<cors.origin>>
           ELSE cors.acao = <<>>
        /\ cors.vary # <<>> /\ cors.vary[Len(cors.vary)] = "Origin"
        /\ ~cors.aborted
        /\ cors.pc = "route" => ENABLED CorsRoute

C18_Witness ==
    /\ cors.pc = "sent"
    /\ cors.allowed = <<"https://a.example">>
    /\ cors.origin = "https://a.example.evil.test"
    /\ cors.acao = <<>>
    /\ cors.vary = <<"Accept-Encoding", "Origin">>

\* C13: for an upload created through a trusted proxy that forwards the
\* client's address, the stored uploader_ip is never anything but unset or
\* the first forwarded address (never the proxy's own address); once the
\* upload exists its post-create event leads to the first forwarded
\* address being stored, unless the store refused a write for it; and once
\* stored, no later step, a post-finish event included, changes it.
C13_OriginalClientIPStored ==
    /\ [](\A id \in 1..Len(uploads) :
             UploadBehindTrustedProxy(id)
                 => /\ db[id] \in {EmptyString, UploadClientIP(id)}
                    /\ db[id] # Text(UploadPeerHost(id)))
    /\ \A id \in 1..MaxLiveUploads :
          C13_Created(id) ~> C13_Settled(id)
    /\ [][\A id \in 1..Len(uploads) :
             UploadBehindTrustedProxy(id) /\ db[id] = UploadClientIP(id)
                 => db'[id] = db[id]]_vars

C13_Witness ==
    /\ Len(uploads) >= 1
    /\ UploadBehindTrustedProxy(1)
    /\ UploadPeerHost(1) = "10.0.0.1"
    /\ db[1] = Text("9.9.9.9")
    /\ event = EventOf(HookPostFinish, 1, uploads[1].MetaData)

\* C14, as claimed: for every upload and every sequence of delivered
\* events, the store accepts at most one write of the upload's uploader_ip.
C14_WrittenAtMostOnce ==
    \A id \in 1..Len(uploads) : Cardinality(Written(id)) <= 1

\* C14, amended: the recorder writes an upload's uploader_ip at most once
\* for each post-create event delivered for that upload, so at most once
\* when the broadcaster delivers the event once.
C14_WrittenOncePerCreatedEvent ==
    \A id \in 1..Len(uploads) :
        /\ Cardinality(Issued(id)) <= created[id]
        /\ created[id] = 1 => Cardinality(Written(id)) <= 1

C14_Witness ==
    /\ Len(uploads) = 1
    /\ created[1] = 2
    /\ emitted = 3
    /\ Cardinality(Written(1)) = 2

\* C15: delivering an upload's post-create event again leaves the store as
\* a single delivery does: whatever the interleaving of the writes, an
\* upload's uploader_ip is the RemoteIP of its metadata once the store has
\* accepted a write for it, and the record of an upload without an
\* accepted write is as it was created.
C15_RedeliveryIdempotent ==
    \A id \in 1..Len(uploads) :
        db[id] = IF Written(id) # {} THEN UploadRemoteIP(id) ELSE EmptyString

C15_Witness ==
    /\ Len(uploads) = 2
    /\ created[1] = 2
    /\ Cardinality(Written(1)) = 2
    /\ db[1] = Text("9.9.9.9")
    /\ \A i \in 1..Len(tasks) : tasks[i].pc = "done"
    /\ Written(2) = {}
    /\ db[2] = EmptyString

\* C16: a write the store refuses ends its goroutine: no goroutine calls
\* db.UpdateRow a second time; the loop can still take the next event off
\* the channel; and no step of a goroutine changes an upload or the answer
\* its create request got, which exists before the write is issued.
C16_FailedWriteOnlyLogged ==
    /\ [](\A i \in 1..Len(tasks) :
             /\ tasks[i].attempts <= 1
             /\ tasks[i].err => tasks[i].pc = "done")
    /\ []((recPc = "running" /\ channel # <<>>) => ENABLED RecorderReceive)
    /\ [][ /\ \A id \in 1..Len(uploads) : uploads'[id] = uploads[id]
           /\ \A i \in 1..Len(tasks) :
                 tasks[i].pc = "done" => tasks'[i] = tasks[i] ]_vars

C16_Witness ==
    /\ Len(tasks) = 2
    /\ tasks[1].pc = "done" /\ tasks[1].err
    /\ tasks[2].pc = "done" /\ ~tasks[2].err
    /\ tasks[2].event.ID = 2
    /\ db[1] = EmptyString
    /\ db[2] # EmptyString

\* Goroutine i was started; it has ended.
C19_Started(i) == i <= Len(tasks)
C19_Ended(i) == IF i <= Len(tasks) THEN tasks[i].pc = "done" ELSE FALSE

\* C19: once the channel is closed ipRecorder returns, and after it has
\* returned it starts no goroutine; the goroutines it started are not
\* cancelled: each keeps its event and reaches its end, also when the
\* loop has returned before.
C19_CloseEndsLoopNotTasks ==
    /\ closed ~> (recPc = "returned")
    /\ [][recPc = "returned"
             => recPc' = "returned" /\ Len(tasks') = Len(tasks)]_vars
    /\ [][\A i \in 1..Len(tasks) :
             /\ i <= Len(tasks')
             /\ tasks'[i].event = tasks[i].event
             /\ tasks[i].pc = "done" => tasks'[i].pc = "done"]_vars
    /\ \A i \in 1..MaxLiveEvents : C19_Started(i) ~> C19_Ended(i)

C19_Witness ==
    /\ recPc = "returned"
    /\ Len(tasks) = 2
    /\ tasks[1].pc = "done"
    /\ tasks[2].pc = "writing"

\* C20: every write a goroutine issues carries the ID and the RemoteIP of
\* the one event that started the goroutine, which are the ID and the
\* RemoteIP of one upload, however the loop and the goroutines interleave;
\* and while a write is blocked the loop can take the next event.
C20_WritePairsOwnEvent ==
    /\ \A i \in 1..Len(tasks) :
          tasks[i].pc \in {"writing", "done"}
              => /\ tasks[i].id = tasks[i].event.ID
                 /\ tasks[i].ip = MetaGet(tasks[i].event.MetaData, remoteIPKey)
                 /\ tasks[i].id \in 1..Len(uploads)
                 /\ tasks[i].ip = UploadRemoteIP(tasks[i].id)
    /\ ( /\ \E i \in 1..Len(tasks) : tasks[i].pc = "writing"
         /\ recPc = "running"
         /\ channel # <<>> ) => ENABLED RecorderReceive

C20_Witness ==
    /\ Len(tasks) = 2
    /\ tasks[1].pc = "writing"
    /\ tasks[2].pc = "writing"
    /\ tasks[1].id # tasks[2].id
    /\ tasks[1].ip # tasks[2].ip
    /\ event.Type = HookPostFinish
====
